---- MODULE Spec2Model ----
(***************************************************************************)
(* Universal AI Assistant (src/universal_ai_assistant.py): the JSON        *)
(* extraction helper, the structured display routine and the session's     *)
(* conversation history, as state machines.                                *)
(*                                                                         *)
(* A text is a sequence of lexical units.  Every unit is a piece of text   *)
(* that neither the JSON scanner nor the brace pattern can split: one      *)
(* punctuation character, the digit 1, the letter x, or one of the words   *)
(* null and true (whose letters are no other unit of the alphabet).        *)
(***************************************************************************)
EXTENDS Integers, Sequences, FiniteSets, TLC

VARIABLES
    pc,                   \* position of the run being modelled
    text,                 \* argument of extract_json_from_text
    json_data,            \* its return value
    searched,             \* whether re.search was called
    group,                \* json_match.group(), <<>> when there was no match
    data,                 \* argument of display_structured_data
    calls,                \* number of display_structured_data calls made
    directives,           \* the st.* calls of the latest display
    previous,             \* the st.* calls of the display before it
    GROQ_API_KEY,         \* whether the environment sets the key
    user_input,           \* content of the request text area
    now,                  \* the clock datetime.now() reads
    response_text,        \* what generate_structured_response returned
    ui,                   \* messages the Process Request handler showed
    conversation_history, \* st.session_state.conversation_history
    shown                 \* entries listed under Recent Conversations

extractVars == <<pc, text, searched, group>>
renderVars == <<data, calls, previous>>
appVars == <<GROQ_API_KEY, user_input, now, response_text, ui,
             conversation_history, shown>>
vars == <<extractVars, renderVars, json_data, directives, appVars>>

-----------------------------------------------------------------------------
(* Bounds *)

MaxLen == 3
MaxProse == 1
MaxItems == 2
MaxCalls == 2
MaxHistory == 4
MaxClock == 1

-----------------------------------------------------------------------------
(* Python values.  Every value is a record with a type tag t and a payload *)
(* v; a dict is the sequence of its <<key, value>> pairs in insertion      *)
(* order, a str is the sequence of its units.                              *)

None == [t |-> "NoneType", v |-> 0]
PyBool(b) == [t |-> "bool", v |-> b]
PyInt(n) == [t |-> "int", v |-> n]
PyStr(s) == [t |-> "str", v |-> s]
PyList(xs) == [t |-> "list", v |-> xs]
PyDict(ps) == [t |-> "dict", v |-> ps]

\* d[k] = x on a dict's pair sequence: a present key keeps its position.
DictSet(ps, k, x) ==
    IF \E i \in 1..Len(ps) : ps[i][1] = k
    THEN [i \in 1..Len(ps) |-> IF ps[i][1] = k THEN <<k, x>> ELSE ps[i]]
    ELSE Append(ps, <<k, x>>)

RECURSIVE DictFromPairs(_, _)
\* dict(pairs), the object_hook-free result of the JSON object decoder.
DictFromPairs(pairs, acc) ==
    IF pairs = <<>> THEN acc
    ELSE DictFromPairs(Tail(pairs), DictSet(acc, Head(pairs)[1], Head(pairs)[2]))

-----------------------------------------------------------------------------
(* json.loads on unit sequences *)

Alphabet == {"{", "}", "[", "]", "\"", ":", ",", "1", "x", "null", "true"}

Fail == [ok |-> FALSE, val |-> None, pos |-> 0]
Ok(x, p) == [ok |-> TRUE, val |-> x, pos |-> p]

RECURSIVE NumEnd(_, _)
\* First position after the digits that start at i.
NumEnd(t, i) == IF i <= Len(t) /\ t[i] = "1" THEN NumEnd(t, i + 1) ELSE i

RECURSIVE IntOf(_, _, _)
\* int() of the digits t[i..j-1].
IntOf(t, i, j) == IF j <= i THEN 0 ELSE 10 * IntOf(t, i, j - 1) + 1

\* A string literal whose opening quote is at i: up to the next quote.
ScanString(t, i) ==
    LET closing == {j \in (i + 1)..Len(t) : t[j] = "\""}
    IN  IF closing = {} THEN Fail
        ELSE LET j == CHOOSE c \in closing : \A d \in closing : c <= d
             IN  Ok(SubSeq(t, i + 1, j - 1), j + 1)

RECURSIVE ScanOnce(_, _)
RECURSIVE ObjectPairs(_, _, _)
RECURSIVE ArrayItems(_, _, _)

\* The members of an object, a key expected at i.
ObjectPairs(t, i, pairs) ==
    IF i > Len(t) \/ t[i] # "\"" THEN Fail
    ELSE LET k == ScanString(t, i)
         IN  IF ~k.ok \/ k.pos > Len(t) \/ t[k.pos] # ":" THEN Fail
             ELSE LET x == ScanOnce(t, k.pos + 1)
                      ps == Append(pairs, <<k.val, x.val>>)
                  IN  IF ~x.ok \/ x.pos > Len(t) THEN Fail
                      ELSE IF t[x.pos] = "}"
                           THEN Ok(PyDict(DictFromPairs(ps, <<>>)), x.pos + 1)
                      ELSE IF t[x.pos] = ","
                           THEN ObjectPairs(t, x.pos + 1, ps)
                      ELSE Fail

\* The elements of an array, a value expected at i.
ArrayItems(t, i, items) ==
    LET x == ScanOnce(t, i)
    IN  IF ~x.ok \/ x.pos > Len(t) THEN Fail
        ELSE IF t[x.pos] = "]" THEN Ok(PyList(Append(items, x.val)), x.pos + 1)
        ELSE IF t[x.pos] = "," THEN ArrayItems(t, x.pos + 1, Append(items, x.val))
        ELSE Fail

\* One JSON value starting at i.
ScanOnce(t, i) ==
    IF i > Len(t) THEN Fail
    ELSE CASE t[i] = "\"" ->
                 LET s == ScanString(t, i)
                 IN  IF s.ok THEN Ok(PyStr(s.val), s.pos) ELSE Fail
           [] t[i] = "{" ->
                 IF i + 1 <= Len(t) /\ t[i + 1] = "}"
                 THEN Ok(PyDict(<<>>), i + 2)
                 ELSE ObjectPairs(t, i + 1, <<>>)
           [] t[i] = "[" ->
                 IF i + 1 <= Len(t) /\ t[i + 1] = "]"
                 THEN Ok(PyList(<<>>), i + 2)
                 ELSE ArrayItems(t, i + 1, <<>>)
           [] t[i] = "null" -> Ok(None, i + 1)
           [] t[i] = "true" -> Ok(PyBool(TRUE), i + 1)
           [] t[i] = "1" -> Ok(PyInt(IntOf(t, i, NumEnd(t, i))), NumEnd(t, i))
           [] OTHER -> Fail

\* json.loads(t): one value and nothing after it, or an exception (ok FALSE).
json_loads(t) ==
    LET r == ScanOnce(t, 1)
    IN  IF r.ok /\ r.pos = Len(t) + 1 THEN r ELSE Fail

-----------------------------------------------------------------------------
(* re.search(r'\{[^{}]*\{.*\}[^{}]*\}|\{.*\}', text, re.DOTALL) *)

IsBrace(u) == u \in {"{", "}"}

Least(S) == CHOOSE a \in S : \A b \in S : a <= b
Greatest(S) == CHOOSE a \in S : \A b \in S : a >= b

\* Where [^{}]* must stop: the first brace after i, 0 when there is none.
NextBrace(t, i) ==
    LET B == {j \in (i + 1)..Len(t) : IsBrace(t[j])}
    IN  IF B = {} THEN 0 ELSE Least(B)

\* The left branch with a lazy .*? in place of the greedy .* .
Alt1EndLazy(t, i) ==
    LET j == NextBrace(t, i)
    IN  IF j = 0 \/ t[j] # "{" THEN 0
        ELSE LET K == {k \in (j + 1)..Len(t) :
                          /\ t[k] = "}"
                          /\ NextBrace(t, k) # 0
                          /\ t[NextBrace(t, k)] = "}"}
             IN  IF K = {} THEN 0 ELSE NextBrace(t, Least(K))

\* \{[^{}]*\{.*\}[^{}]*\} anchored at i: the end of the match, 0 for none.
\* [^{}]* can only hand over to \{ at the next brace; the greedy .* gives
\* back until a } follows whose next brace is again a }.
Alt1End(t, i) ==
    LET j == NextBrace(t, i)
    IN  IF j = 0 \/ t[j] # "{" THEN 0
        ELSE LET K == {k \in (j + 1)..Len(t) :
                          /\ t[k] = "}"
                          /\ NextBrace(t, k) # 0
                          /\ t[NextBrace(t, k)] = "}"}
             IN  IF K = {} THEN 0 ELSE NextBrace(t, Greatest(K))

\* The right branch with a lazy .*? : it stops at the first } .
Alt2EndLazy(t, i) ==
    LET M == {m \in (i + 1)..Len(t) : t[m] = "}"}
    IN  IF M = {} THEN 0 ELSE Least(M)

\* \{.*\} anchored at i: the greedy .* runs to the last } of the text.
Alt2End(t, i) ==
    LET M == {m \in (i + 1)..Len(t) : t[m] = "}"}
    IN  IF M = {} THEN 0 ELSE Greatest(M)

\* The alternation anchored at i: the left branch wins when it matches.
MatchEnd(t, i) ==
    IF t[i] # "{" THEN 0
    ELSE IF Alt1End(t, i) # 0 THEN Alt1End(t, i)
    ELSE Alt2End(t, i)

\* The leftmost position with a match.
re_search(t) ==
    LET S == {i \in 1..Len(t) : MatchEnd(t, i) # 0}
    IN  IF S = {} THEN [found |-> FALSE, start |-> 0, end |-> 0]
        ELSE [found |-> TRUE, start |-> Least(S), end |-> MatchEnd(t, Least(S))]

-----------------------------------------------------------------------------
(* extract_json_from_text *)

\* extract_json_from_text with the pattern tried before the whole text.
extract_json_pattern_first(t) ==
    LET json_match == re_search(t)
        g == SubSeq(t, json_match.start, json_match.end)
    IN  IF json_match.found /\ json_loads(g).ok
        THEN [ret |-> json_loads(g).val, searched |-> TRUE, group |-> g]
        ELSE [ret |-> IF json_loads(t).ok THEN json_loads(t).val ELSE None,
              searched |-> TRUE, group |-> IF json_match.found THEN g ELSE <<>>]

extract_json_from_text(t) ==
    IF json_loads(t).ok
    THEN [ret |-> json_loads(t).val, searched |-> FALSE, group |-> <<>>]
    ELSE LET json_match == re_search(t)
             g == SubSeq(t, json_match.start, json_match.end)
         IN  IF json_match.found
             THEN [ret |-> IF json_loads(g).ok THEN json_loads(g).val ELSE None,
                   searched |-> TRUE, group |-> g]
             ELSE [ret |-> None, searched |-> TRUE, group |-> <<>>]

\* The state of the session before the first run, and of the variables of
\* the session in the runs of a single function.
AppIdle ==
    /\ user_input = ""
    /\ now = 0
    /\ response_text = None
    /\ ui = <<>>
    /\ conversation_history = <<>>
    /\ shown = <<>>
    /\ GROQ_API_KEY = TRUE

-----------------------------------------------------------------------------
(* Input texts *)

Seqs(S, n) == UNION {[1..m -> S] : m \in 0..n}

Quoted(s) == <<"\"">> \o s \o <<"\"">>

\* JSON objects a provider may answer with.
Bodies == {
    <<"{", "}">>,
    <<"{">> \o Quoted(<<"x">>) \o <<":", "1", "}">>,
    <<"{">> \o Quoted(<<"x">>) \o <<":", "{", "}", "}">>,
    <<"{">> \o Quoted(<<"x">>) \o <<":", "{", "}", ",">> \o Quoted(<<>>) \o <<":", "1", "}">>,
    <<"{">> \o Quoted(<<"{", "}", "}", "{">>) \o <<":", "1", "}">>,
    <<"{">> \o Quoted(<<"x">>) \o <<":">> \o Quoted(<<"}">>) \o <<"}">>,
    <<"{">> \o Quoted(<<"x">>) \o <<":", "[", "null", ",", "true", "]", "}">>,
    <<"{">> \o Quoted(<<"x">>) \o <<":", "{">> \o Quoted(<<"x">>) \o <<":", "{", "}", "}", "}">> }

ProseAlphabet == {"x", "{", "}", "[", "]"}
Prose == Seqs(ProseAlphabet, MaxProse)

\* prefix + object + suffix, optionally a second object after the suffix.
Framed == {p \o b \o q \o c : p \in Prose, q \in Prose, b \in Bodies,
                               c \in Bodies \cup {<<>>}}

Texts == Seqs(Alphabet, MaxLen) \cup Framed

-----------------------------------------------------------------------------
(* The extraction run *)

InitExtract ==
    /\ pc = "call"
    /\ text \in Texts
    /\ json_data = None
    /\ searched = FALSE
    /\ group = <<>>
    /\ data = None
    /\ calls = 0
    /\ directives = <<>>
    /\ previous = <<>>
    /\ AppIdle

Extract ==
    /\ pc = "call"
    /\ LET r == extract_json_from_text(text)
       IN  /\ json_data' = r.ret
           /\ searched' = r.searched
           /\ group' = r.group
    /\ pc' = "done"
    /\ UNCHANGED <<text, data, calls, directives, previous, appVars>>

NextExtract == Extract

SpecExtract == InitExtract /\ [][NextExtract]_vars

-----------------------------------------------------------------------------
(* Python's bool(), str() and repr() on the values above *)

Truthy(x) ==
    CASE x.t = "NoneType" -> FALSE
      [] x.t = "bool" -> x.v
      [] x.t = "int" -> x.v # 0
      [] OTHER -> x.v # <<>>

DigitChars == <<"0", "1", "2", "3", "4", "5", "6", "7", "8", "9">>

RECURSIVE Decimal(_)
\* str(n) for an int n >= 0.
Decimal(n) ==
    IF n < 10 THEN <<DigitChars[n + 1]>>
    ELSE Decimal(n \div 10) \o <<DigitChars[(n % 10) + 1]>>

RECURSIVE PyRepr(_)
RECURSIVE ReprItems(_)
RECURSIVE ReprPairs(_)

\* ", ".join(repr(x) for x in xs)
ReprItems(xs) ==
    IF xs = <<>> THEN <<>>
    ELSE PyRepr(Head(xs))
         \o (IF Tail(xs) = <<>> THEN <<>> ELSE <<", ">> \o ReprItems(Tail(xs)))

\* ", ".join(repr(k) + ": " + repr(x) for k, x in d.items())
ReprPairs(ps) ==
    IF ps = <<>> THEN <<>>
    ELSE <<"'">> \o Head(ps)[1] \o <<"'", ": ">> \o PyRepr(Head(ps)[2])
         \o (IF Tail(ps) = <<>> THEN <<>> ELSE <<", ">> \o ReprPairs(Tail(ps)))

PyRepr(x) ==
    CASE x.t = "NoneType" -> <<"None">>
      [] x.t = "bool" -> IF x.v THEN <<"True">> ELSE <<"False">>
      [] x.t = "int" -> Decimal(x.v)
      [] x.t = "str" -> <<"'">> \o x.v \o <<"'">>
      [] x.t = "list" -> <<"[">> \o ReprItems(x.v) \o <<"]">>
      [] x.t = "dict" -> <<"{">> \o ReprPairs(x.v) \o <<"}">>

\* The text an f-string puts for {x}.
Format(x) == IF x.t = "str" THEN x.v ELSE PyRepr(x)

-----------------------------------------------------------------------------
(* key.replace('_', ' ').title() *)

LowerCase == <<"a", "b", "c", "d", "e", "f", "g", "h", "i", "j", "k", "l", "m",
               "n", "o", "p", "q", "r", "s", "t", "u", "v", "w", "x", "y", "z">>
UpperCase == <<"A", "B", "C", "D", "E", "F", "G", "H", "I", "J", "K", "L", "M",
               "N", "O", "P", "Q", "R", "S", "T", "U", "V", "W", "X", "Y", "Z">>

IsLetter(c) == \E n \in 1..26 : c = LowerCase[n] \/ c = UpperCase[n]
ToUpper(c) ==
    IF \E n \in 1..26 : c = LowerCase[n]
    THEN UpperCase[CHOOSE n \in 1..26 : c = LowerCase[n]] ELSE c
ToLower(c) ==
    IF \E n \in 1..26 : c = UpperCase[n]
    THEN LowerCase[CHOOSE n \in 1..26 : c = UpperCase[n]] ELSE c

Replace(s, old, new) == [n \in 1..Len(s) |-> IF s[n] = old THEN new ELSE s[n]]

\* A letter that starts a word is upper-cased, every other letter lower-cased.
Title(s) ==
    [n \in 1..Len(s) |->
        IF n = 1 \/ ~IsLetter(s[n - 1]) THEN ToUpper(s[n]) ELSE ToLower(s[n])]

Humanize(key) == Title(Replace(key, "_", " "))

-----------------------------------------------------------------------------
(* The Streamlit calls a display makes, in order.  A call made inside a    *)
(* with st.expander(...) block is a child of the expander.                 *)

StCall(c, s, x, ch) == [call |-> c, text |-> s, value |-> x, children |-> ch]
StError(s) == StCall("error", s, None, <<>>)
StWrite(s) == StCall("write", s, None, <<>>)
StMetric(label, x) == StCall("metric", label, x, <<>>)
StSubheader(s) == StCall("subheader", s, None, <<>>)
StExpander(s, ch) == StCall("expander", s, None, ch)

\* The bullet character and blank that start a list line (U+2022, " ").
BulletMark == "* "

RECURSIVE Bullets(_)
\* for item in value: st.write(f"* {item}")
Bullets(xs) ==
    IF xs = <<>> THEN <<>>
    ELSE <<StWrite(<<BulletMark>> \o Format(Head(xs)))>> \o Bullets(Tail(xs))

\* display_item with the number test ahead of the boolean test.
display_item_number_first(key, value) ==
    LET key_display == Humanize(key)
    IN  CASE value.t \in {"int", "bool"} -> <<StMetric(key_display, value)>>
          [] value.t = "list" ->
                <<StWrite(<<"**">> \o key_display \o <<":**">>)>> \o Bullets(value.v)
          [] value = None \/ value = PyStr(<<>>) ->
                <<StWrite(<<"**">> \o key_display \o <<":** ", "Not specified">>)>>
          [] OTHER ->
                <<StWrite(<<"**">> \o key_display \o <<":** ">> \o Format(value))>>

\* display_item with a list shown the way the top level shows one.
display_item_list_in_expander(key, value) ==
    LET key_display == Humanize(key)
    IN  CASE value.t = "bool" ->
                <<StWrite(<<"**">> \o key_display \o <<":** ">>
                          \o (IF value.v THEN <<" Yes">> ELSE <<" No">>))>>
          [] value.t = "int" -> <<StMetric(key_display, value)>>
          [] value.t = "list" ->
                <<StExpander(<<" ">> \o key_display \o <<" (">>
                                 \o Decimal(Len(value.v)) \o <<" items)">>,
                             Bullets(value.v))>>
          [] value = None \/ value = PyStr(<<>>) ->
                <<StWrite(<<"**">> \o key_display \o <<":** ", "Not specified">>)>>
          [] OTHER ->
                <<StWrite(<<"**">> \o key_display \o <<":** ">> \o Format(value))>>

display_item(key, value) ==
    LET key_display == Humanize(key)
    IN  CASE value.t = "bool" ->
                <<StWrite(<<"**">> \o key_display \o <<":** ">>
                          \o (IF value.v THEN <<" Yes">> ELSE <<" No">>))>>
          [] value.t = "int" -> <<StMetric(key_display, value)>>
          [] value.t = "list" ->
                <<StWrite(<<"**">> \o key_display \o <<":**">>)>> \o Bullets(value.v)
          [] value = None \/ value = PyStr(<<>>) ->
                <<StWrite(<<"**">> \o key_display \o <<":** ", "Not specified">>)>>
          [] OTHER ->
                <<StWrite(<<"**">> \o key_display \o <<":** ">> \o Format(value))>>

RECURSIVE Items(_)
\* for k, v in d.items(): display_item(k, v)
Items(ps) ==
    IF ps = <<>> THEN <<>>
    ELSE display_item(Head(ps)[1], Head(ps)[2]) \o Items(Tail(ps))

RECURSIVE ListBody(_, _)
\* The body of a top-level list's expander, the first item numbered i.
ListBody(xs, i) ==
    IF xs = <<>> THEN <<>>
    ELSE (IF Head(xs).t = "dict"
          THEN <<StSubheader(<<"Item ">> \o Decimal(i))>> \o Items(Head(xs).v)
          ELSE <<StWrite(<<BulletMark>> \o Format(Head(xs)))>>)
         \o ListBody(Tail(xs), i + 1)

\* One pass of the loop over data.items().
Section(key, value) ==
    LET key_display == Humanize(key)
    IN  CASE value.t = "dict" ->
                <<StExpander(<<" ">> \o key_display, Items(value.v))>>
          [] value.t = "list" ->
                <<StExpander(<<" ">> \o key_display \o <<" (">>
                                 \o Decimal(Len(value.v)) \o <<" items)">>,
                             ListBody(value.v, 1))>>
          [] OTHER -> display_item(key, value)

RECURSIVE SectionsBackwards(_)
\* The loop over data.items() run from the last key to the first.
SectionsBackwards(ps) ==
    IF ps = <<>> THEN <<>>
    ELSE SectionsBackwards(Tail(ps)) \o Section(Head(ps)[1], Head(ps)[2])

RECURSIVE Sections(_)
Sections(ps) ==
    IF ps = <<>> THEN <<>>
    ELSE Section(Head(ps)[1], Head(ps)[2]) \o Sections(Tail(ps))

\* display_structured_data with the keys taken last to first.
display_structured_data_backwards(d) ==
    IF ~Truthy(d) \/ d.t # "dict"
    THEN <<StError(<<"Invalid data format received">>)>>
    ELSE SectionsBackwards(d.v)

display_structured_data(d) ==
    IF ~Truthy(d) \/ d.t # "dict"
    THEN <<StError(<<"Invalid data format received">>)>>
    ELSE Sections(d.v)

-----------------------------------------------------------------------------
(* Input values of the display *)

KeyPlan == <<"p", "l", "a", "n">>
KeyIsDone == <<"i", "s", "_", "D", "O", "N", "E">>
KeySteps == <<"s", "t", "e", "p", "s">>
KeyDuration == <<"d", "u", "r", "a", "t", "i", "o", "n">>

Scalars == {None, PyBool(TRUE), PyBool(FALSE), PyInt(0), PyInt(5),
            PyStr(<<>>), PyStr(<<"a">>), PyStr(<<"b">>)}

ListItems == {PyStr(<<"a">>), PyStr(<<"b">>), None,
              PyDict(<<<<KeySteps, PyBool(TRUE)>>>>)}
Lists == {PyList(xs) : xs \in Seqs(ListItems, MaxItems)}

\* The values of a sub-mapping, and the sub-mappings over two keys.
SubValues == Scalars \cup Lists \cup {PyDict(<<<<KeyDuration, PyInt(5)>>>>)}
SubDicts ==
    {PyDict(<<>>)}
    \cup {PyDict(<<<<k, x>>>>) : k \in {KeySteps, KeyDuration}, x \in SubValues}
    \cup {PyDict(<<<<KeySteps, x>>, <<KeyDuration, y>>>>) : x \in SubValues, y \in SubValues}
    \cup {PyDict(<<<<KeyDuration, x>>, <<KeySteps, y>>>>) : x \in SubValues, y \in SubValues}

TopValues == Scalars \cup Lists \cup SubDicts
FewValues == Scalars \cup {PyList(<<PyStr(<<"a">>)>>),
                           PyDict(<<<<KeySteps, PyList(<<PyInt(5)>>)>>>>)}

Data ==
    Scalars \cup Lists \cup {PyDict(<<>>)}
    \cup {PyDict(<<<<k, x>>>>) : k \in {KeyPlan, KeyIsDone}, x \in TopValues}
    \cup {PyDict(<<<<KeyPlan, x>>, <<KeyIsDone, y>>>>) : x \in FewValues, y \in FewValues}
    \cup {PyDict(<<<<KeyIsDone, x>>, <<KeyPlan, y>>>>) : x \in FewValues, y \in FewValues}

-----------------------------------------------------------------------------
(* The display run: display_structured_data called on the same value up to *)
(* MaxCalls times                                                          *)

InitRender ==
    /\ pc = "render"
    /\ text = <<>>
    /\ json_data = None
    /\ searched = FALSE
    /\ group = <<>>
    /\ data \in Data
    /\ calls = 0
    /\ directives = <<>>
    /\ previous = <<>>
    /\ AppIdle

Display ==
    /\ pc = "render"
    /\ calls < MaxCalls
    /\ calls' = calls + 1
    /\ previous' = directives
    /\ directives' = display_structured_data(data)
    /\ UNCHANGED <<pc, text, json_data, searched, group, data, appVars>>

NextRender == Display

SpecRender == InitRender /\ [][NextRender]_vars

-----------------------------------------------------------------------------
(* The session: the page script runs once per user interaction *)

selected_model == "llama-3.3-70b-versatile"

RecentCount == 3

UserInputs == {"", "plan a trip", "analyse sales"}

\* Texts the completion may hold.
Responses == {
    <<>>,
    <<"x">>,
    <<"null">>,
    <<"1">>,
    <<"{", "}">>,
    <<"{">> \o Quoted(<<"x">>) \o <<":", "1", "}">>,
    <<"x", "{">> \o Quoted(<<"x">>) \o <<":", "1", "}", "x">> }

\* What the Groq client does: its constructor raises, the request raises,
\* or the completion's content comes back.
ProviderOutcomes ==
    {[kind |-> k, content |-> <<>>] : k \in {"config_error", "api_error"}}
    \cup {[kind |-> "content", content |-> r] : r \in Responses}

setup_groq(key, outcome) ==
    IF ~key
    THEN [client |-> FALSE, errors |-> <<"API is not configured">>]
    ELSE IF outcome.kind = "config_error"
    THEN [client |-> FALSE, errors |-> <<"API configuration failed">>]
    ELSE [client |-> TRUE, errors |-> <<>>]

generate_structured_response(key, outcome) ==
    LET c == setup_groq(key, outcome)
    IN  IF ~c.client THEN [ret |-> None, errors |-> c.errors]
        ELSE IF outcome.kind = "api_error"
        THEN [ret |-> None, errors |-> <<"API Error">>]
        ELSE [ret |-> PyStr(outcome.content), errors |-> <<>>]

Reversed(s) == [n \in 1..Len(s) |-> s[Len(s) + 1 - n]]

\* h[:3] in place of h[-3:].
RecentFromTheFront(h) ==
    IF h = <<>> THEN <<>>
    ELSE Reversed(SubSeq(h, 1, IF Len(h) < RecentCount THEN Len(h) ELSE RecentCount))

\* reversed(conversation_history[-3:]), nothing for an empty history.
Recent(h) ==
    IF h = <<>> THEN <<>>
    ELSE Reversed(SubSeq(h, IF Len(h) > RecentCount THEN Len(h) - RecentCount + 1 ELSE 1,
                         Len(h)))

\* A run of the script with Process Request pressed.
ProcessRequest ==
    /\ pc = "session"
    /\ Len(conversation_history) < MaxHistory
    /\ \E outcome \in ProviderOutcomes :
          IF ~GROQ_API_KEY
          THEN /\ ui' = <<"API is not configured">>
               /\ response_text' = None
               /\ json_data' = None
               /\ directives' = <<>>
               /\ UNCHANGED conversation_history
          ELSE IF user_input = ""
          THEN /\ ui' = <<"Please enter your request">>
               /\ response_text' = None
               /\ json_data' = None
               /\ directives' = <<>>
               /\ UNCHANGED conversation_history
          ELSE LET g == generate_structured_response(GROQ_API_KEY, outcome)
               IN  /\ response_text' = g.ret
                   /\ IF Truthy(g.ret)
                      THEN LET x == extract_json_from_text(g.ret.v).ret
                           IN  /\ json_data' = x
                               /\ IF Truthy(x)
                                  THEN /\ ui' = <<"Response Generated Successfully!">>
                                       /\ directives' = display_structured_data(x)
                                       /\ conversation_history' =
                                             Append(conversation_history,
                                                    [timestamp |-> now,
                                                     request |-> user_input,
                                                     response |-> x,
                                                     model |-> selected_model])
                                  ELSE /\ ui' = <<"Failed to parse JSON response">>
                                       /\ directives' = <<>>
                                       /\ UNCHANGED conversation_history
                      ELSE /\ ui' = g.errors \o <<"Failed to generate response">>
                           /\ json_data' = None
                           /\ directives' = <<>>
                           /\ UNCHANGED conversation_history
    /\ shown' = Recent(conversation_history')
    /\ UNCHANGED <<extractVars, renderVars, GROQ_API_KEY, user_input, now>>

\* A run of the script after the request text was edited.
EditRequest ==
    /\ pc = "session"
    /\ \E u \in UserInputs \ {user_input} : user_input' = u
    /\ response_text' = None
    /\ json_data' = None
    /\ directives' = <<>>
    /\ ui' = <<>>
    /\ shown' = Recent(conversation_history)
    /\ UNCHANGED <<extractVars, renderVars, GROQ_API_KEY, now, conversation_history>>

\* A run with a Reuse button pressed, and the rerun it asks for: the
\* assignment to st.session_state.user_input is taken to succeed.
Reuse ==
    /\ pc = "session"
    /\ \E i \in 1..Len(shown) : user_input' = shown[i].request
    /\ response_text' = None
    /\ json_data' = None
    /\ directives' = <<>>
    /\ ui' = <<>>
    /\ shown' = Recent(conversation_history)
    /\ UNCHANGED <<extractVars, renderVars, GROQ_API_KEY, now, conversation_history>>

\* Time passes.
Tick ==
    /\ pc = "session"
    /\ now < MaxClock
    /\ now' = now + 1
    /\ UNCHANGED <<extractVars, renderVars, json_data, directives, GROQ_API_KEY,
                   user_input, response_text, ui, conversation_history, shown>>

Init ==
    /\ pc = "session"
    /\ text = <<>>
    /\ searched = FALSE
    /\ group = <<>>
    /\ data = None
    /\ calls = 0
    /\ previous = <<>>
    /\ json_data = None
    /\ directives = <<>>
    /\ GROQ_API_KEY \in BOOLEAN
    /\ user_input = ""
    /\ now = 0
    /\ response_text = None
    /\ ui = <<>>
    /\ conversation_history = <<>>
    /\ shown = <<>>

Next == ProcessRequest \/ EditRequest \/ Reuse \/ Tick

Spec == Init /\ [][Next]_vars

-----------------------------------------------------------------------------
(* Properties of extract_json_from_text *)

Sub(i, j) == SubSeq(text, i, j)
Before(i) == SubSeq(text, 1, i - 1)
After(j) == SubSeq(text, j + 1, Len(text))

\* s is the text of a JSON object.
IsObjectText(s) == json_loads(s).ok /\ json_loads(s).val.t = "dict"

\* Prose in the narrow sense: words only, no JSON punctuation.
IsWords(s) == \A n \in 1..Len(s) : s[n] = "x"

Has(s, u) == \E n \in 1..Len(s) : s[n] = u

\* Position n of s lies inside a string literal (an odd number of quotes
\* precede it).
InString(s, n) == Cardinality({q \in 1..(n - 1) : s[q] = "\""}) % 2 = 1
NoBraceInStrings(s) == \A n \in 1..Len(s) : IsBrace(s[n]) => ~InString(s, n)

\* s has no brace but its first and last unit.
IsFlat(s) == Cardinality({n \in 1..Len(s) : IsBrace(s[n])}) = 2

\* C1: a text that is valid JSON as a whole is returned as json.loads
\* parses it, and the brace pattern is never searched for.
C1_WholeTextParsedDirectly ==
    (pc = "done" /\ json_loads(text).ok)
        => (json_data = json_loads(text).val /\ ~searched)

\* A whole-text parse of an array that holds an object the pattern would match.
C1_Witness ==
    /\ pc = "done"
    /\ json_loads(text).ok
    /\ json_data.t = "list"
    /\ re_search(text).found

\* C2, as claimed: words + object + words always yields the object.
C2_Original ==
    pc = "done" =>
        \A i \in 1..Len(text), j \in 1..Len(text) :
            (/\ i <= j
             /\ text[i] = "{" /\ text[j] = "}"
             /\ IsWords(Before(i)) /\ IsWords(After(j))
             /\ IsObjectText(Sub(i, j)))
                => json_data = json_loads(Sub(i, j)).val

\* C2, amended: prefix + object + suffix yields the object when the object
\* has no brace inside a string literal, the prefix has no "{", the suffix
\* has no "}" and the text as a whole is not itself valid JSON.
C2_WrappedObjectRecovered ==
    pc = "done" =>
        \A i \in 1..Len(text), j \in 1..Len(text) :
            (/\ i <= j
             /\ text[i] = "{" /\ text[j] = "}"
             /\ ~Has(Before(i), "{") /\ ~Has(After(j), "}")
             /\ IsObjectText(Sub(i, j))
             /\ NoBraceInStrings(Sub(i, j))
             /\ (json_loads(text).ok => (i = 1 /\ j = Len(text))))
                => json_data = json_loads(Sub(i, j)).val

\* Words on both sides of a nested object, recovered through the pattern.
C2_Witness ==
    /\ pc = "done"
    /\ searched
    /\ \E i \in 2..Len(text), j \in 1..(Len(text) - 1) :
          /\ i <= j
          /\ IsWords(Before(i)) /\ IsWords(After(j))
          /\ IsObjectText(Sub(i, j))
          /\ ~IsFlat(Sub(i, j))
          /\ NoBraceInStrings(Sub(i, j))
          /\ group = Sub(i, j)
          /\ json_data = json_loads(Sub(i, j)).val

\* C3, as claimed: the failure signal None is returned exactly when the
\* whole-text parse fails and the pattern matches nothing or matches a span
\* that does not parse.
C3_FailureIffNothingParses ==
    pc = "done" =>
        (json_data = None
            <=> (/\ ~json_loads(text).ok
                 /\ \/ ~re_search(text).found
                    \/ ~json_loads(Sub(re_search(text).start,
                                       re_search(text).end)).ok))

\* C4, as claimed: with a second object after the first one and words in
\* between, the outcome is the one the text gives without the later object.
C4_Original ==
    pc = "done" =>
        \A i \in 1..Len(text), j \in 1..Len(text),
           k \in 1..Len(text), l \in 1..Len(text) :
            (/\ i <= j /\ j + 1 < k /\ k <= l
             /\ text[i] = "{" /\ text[j] = "}"
             /\ text[k] = "{" /\ text[l] = "}"
             /\ IsWords(Before(i)) /\ IsWords(Sub(j + 1, k - 1))
             /\ IsWords(After(l))
             /\ IsObjectText(Sub(i, j)) /\ IsObjectText(Sub(k, l))
             /\ ~json_loads(text).ok)
                => /\ group = Sub(i, j)
                   /\ json_data = extract_json_from_text(Before(k)).ret

\* C4, amended: one span is tried, and it starts at the first "{" of the
\* text; a first object without inner braces followed by any later "}" is
\* matched together with everything up to the last "}", and the result is
\* None.
C4_GreedySpanSwallowsLaterObjects ==
    (pc = "done" /\ ~json_loads(text).ok) =>
        /\ searched
        /\ group # <<>> =>
              /\ Has(text, "{")
              /\ LET f == Least({n \in 1..Len(text) : text[n] = "{"})
                 IN  group = Sub(f, f + Len(group) - 1)
        /\ \A i \in 1..Len(text), j \in 1..Len(text) :
              (/\ i <= j
               /\ text[i] = "{" /\ text[j] = "}"
               /\ ~Has(Before(i), "{") /\ Has(After(j), "}")
               /\ IsObjectText(Sub(i, j)) /\ IsFlat(Sub(i, j)))
                  => /\ group = Sub(i, Greatest({n \in 1..Len(text) : text[n] = "}"}))
                     /\ json_data = None

\* Two flat objects with a word between them: the span runs over both.
C4_Witness ==
    /\ pc = "done"
    /\ json_data = None
    /\ \E i \in 1..Len(text), j \in 1..Len(text),
          k \in 1..Len(text), l \in 1..Len(text) :
          /\ i <= j /\ j + 1 < k /\ k <= l
          /\ IsWords(Sub(j + 1, k - 1))
          /\ IsObjectText(Sub(i, j)) /\ IsFlat(Sub(i, j))
          /\ IsObjectText(Sub(k, l))
          /\ group = Sub(i, l)

-----------------------------------------------------------------------------
(* Properties of display_structured_data *)

InvalidFormat == StError(<<"Invalid data format received">>)
Signalled == \E n \in 1..Len(directives) : directives[n].call = "error"

IsScalar(x) == x.t \in {"NoneType", "bool", "int", "str"}

\* The line the specification gives a scalar x stored under key k.
ScalarLine(k, x) ==
    CASE x.t = "bool" ->
            StWrite(<<"**">> \o Humanize(k) \o <<":** ">>
                    \o (IF x.v THEN <<" Yes">> ELSE <<" No">>))
      [] x.t = "int" -> StMetric(Humanize(k), x)
      [] x = None \/ x = PyStr(<<>>) ->
            StWrite(<<"**">> \o Humanize(k) \o <<":** ", "Not specified">>)
      [] OTHER -> StWrite(<<"**">> \o Humanize(k) \o <<":** ">> \o x.v)

RECURSIVE ScalarLines(_)
\* The lines of a sub-mapping: one ScalarLine per scalar entry, in between
\* whatever display_item shows for the other entries.
ScalarLines(ps) ==
    IF ps = <<>> THEN <<>>
    ELSE (IF IsScalar(Head(ps)[2])
          THEN <<ScalarLine(Head(ps)[1], Head(ps)[2])>>
          ELSE display_item(Head(ps)[1], Head(ps)[2]))
         \o ScalarLines(Tail(ps))

\* C5, as claimed: the error is signalled, and nothing else shown, exactly
\* when the value is not a mapping.
C5_ErrorIffNotMapping ==
    calls > 0 =>
        /\ data.t # "dict" => directives = <<InvalidFormat>>
        /\ data.t = "dict" => ~Signalled

\* C6: every scalar under a key, at the top level or in a sub-mapping, is
\* shown as exactly one line chosen by its kind: Yes/No text for a boolean,
\* a metric for a number, "Not specified" for None and "", the string
\* itself otherwise.
C6_ScalarLineByKind ==
    (calls > 0 /\ data.t = "dict" /\ data.v # <<>>) =>
        /\ Len(directives) = Len(data.v)
        /\ \A n \in 1..Len(data.v) :
              LET k == data.v[n][1]
                  x == data.v[n][2]
              IN  /\ IsScalar(x) => directives[n] = ScalarLine(k, x)
                  /\ x.t = "dict" => directives[n].children = ScalarLines(x.v)

\* {"plan": "", "is_DONE": false} shown as "Not specified" and " No".
C6_Witness ==
    /\ calls > 0
    /\ data = PyDict(<<<<KeyPlan, PyStr(<<>>)>>, <<KeyIsDone, PyBool(FALSE)>>>>)
    /\ directives =
          <<StWrite(<<"**", "P", "l", "a", "n", ":** ", "Not specified">>),
            StWrite(<<"**", "I", "s", " ", "D", "o", "n", "e", ":** ", " No">>)>>

RECURSIVE NestedListsAsSections(_)
\* The lines of a sub-mapping when a list in it is shown as at the top level.
NestedListsAsSections(ps) ==
    IF ps = <<>> THEN <<>>
    ELSE (IF Head(ps)[2].t = "list"
          THEN Section(Head(ps)[1], Head(ps)[2])
          ELSE display_item(Head(ps)[1], Head(ps)[2]))
         \o NestedListsAsSections(Tail(ps))

RECURSIVE BulletLines(_)
BulletLines(xs) ==
    IF xs = <<>> THEN <<>>
    ELSE <<StWrite(<<BulletMark>> \o Format(Head(xs)))>> \o BulletLines(Tail(xs))

RECURSIVE NestedListsAsLabelAndBullets(_)
\* The lines of a sub-mapping when a list in it is shown as a "**Key:**"
\* line followed by one bullet line per element.
NestedListsAsLabelAndBullets(ps) ==
    IF ps = <<>> THEN <<>>
    ELSE (IF Head(ps)[2].t = "list"
          THEN <<StWrite(<<"**">> \o Humanize(Head(ps)[1]) \o <<":**">>)>>
               \o BulletLines(Head(ps)[2].v)
          ELSE display_item(Head(ps)[1], Head(ps)[2]))
         \o NestedListsAsLabelAndBullets(Tail(ps))

\* {"plan": {"steps": ["a", "b"], "duration": 5}}
PlanExample ==
    PyDict(<<<<KeyPlan,
               PyDict(<<<<KeySteps, PyList(<<PyStr(<<"a">>), PyStr(<<"b">>)>>)>>,
                        <<KeyDuration, PyInt(5)>>>>)>>>>)

\* C7, as claimed: a list under a key of a top-level sub-mapping is shown
\* exactly as a top-level list is, in an expander that carries the key and
\* the length.
C7_Original ==
    (calls > 0 /\ data.t = "dict") =>
        \A n \in 1..Len(data.v) :
            data.v[n][2].t = "dict"
                => directives[n].children = NestedListsAsSections(data.v[n][2].v)

\* C7, amended: a list under a key of a top-level sub-mapping is shown as
\* one "**Key:**" line, without expander and without length, followed by one
\* bullet line per element; the plan example gives the expander Plan holding
\* the line Steps, the bullets a and b and the metric Duration 5.
C7_NestedListAsLabelAndBullets ==
    (calls > 0 /\ data.t = "dict") =>
        /\ \A n \in 1..Len(data.v) :
              data.v[n][2].t = "dict"
                  => directives[n].children
                         = NestedListsAsLabelAndBullets(data.v[n][2].v)
        /\ data = PlanExample =>
              directives =
                  <<StExpander(<<" ", "P", "l", "a", "n">>,
                      <<StWrite(<<"**", "S", "t", "e", "p", "s", ":**">>),
                        StWrite(<<BulletMark, "a">>),
                        StWrite(<<BulletMark, "b">>),
                        StMetric(<<"D", "u", "r", "a", "t", "i", "o", "n">>,
                                 PyInt(5))>>)>>

C7_Witness == calls > 0 /\ data = PlanExample /\ Len(directives[1].children) = 4

\* The directive d is the one shown for the key whose display form is label.
Labelled(d, label) ==
    \/ d.call = "metric" /\ d.text = label
    \/ /\ d.call \in {"write", "expander"}
       /\ Len(d.text) > Len(label)
       /\ SubSeq(d.text, 2, Len(label) + 1) = label

IsKeyLine(d) == d.call # "write" \/ d.text[1] # BulletMark

-----------------------------------------------------------------------------
(* Properties of the session *)

Min(a, b) == IF a < b THEN a ELSE b

\* C8: the list under Recent Conversations holds min(3, n) entries for a
\* history of n appended entries, the latest first, and the stored history
\* only grows at its end.
C8_RecentThreeLatestFirst ==
    /\ [](/\ Len(shown) = Min(RecentCount, Len(conversation_history))
          /\ \A i \in 1..Len(shown) :
                shown[i] = conversation_history[Len(conversation_history) + 1 - i])
    /\ [][/\ Len(conversation_history') \in
               {Len(conversation_history), Len(conversation_history) + 1}
          /\ SubSeq(conversation_history', 1, Len(conversation_history))
                = conversation_history]_vars

\* Four entries stored, three shown, the entries pairwise different.
C8_Witness ==
    /\ Len(conversation_history) = 4
    /\ Len(shown) = 3
    /\ shown[1] = conversation_history[4]
    /\ shown[1] # shown[2] /\ shown[2] # shown[3] /\ shown[1] # shown[3]
    /\ conversation_history[1] # shown[3]

\* The response holds a JSON value, as a whole or in the span the pattern
\* matches.
HoldsJson(t) ==
    \/ json_loads(t).ok
    \/ /\ re_search(t).found
       /\ json_loads(SubSeq(t, re_search(t).start, re_search(t).end)).ok

\* C10, as claimed: a submission appends one entry exactly when the key is
\* set, the request is not empty, the provider returned a response and the
\* response held valid JSON; otherwise the history stays as it is; and a
\* response that holds valid JSON is never answered with the parse failure
\* message.
C10_AppendIffJsonExtracted ==
    [][ProcessRequest =>
          LET extracted ==
                  /\ GROQ_API_KEY
                  /\ user_input # ""
                  /\ response_text' # None
                  /\ HoldsJson(response_text'.v)
          IN  /\ extracted =>
                    /\ Len(conversation_history') = Len(conversation_history) + 1
                    /\ SubSeq(conversation_history', 1, Len(conversation_history))
                           = conversation_history
              /\ ~extracted => conversation_history' = conversation_history
              /\ (response_text' # None /\ HoldsJson(response_text'.v))
                    => ui' # <<"Failed to parse JSON response">>]_vars

====
